---- MODULE Spec2Model ----
(***************************************************************************)
(* Model of diffusion_model_incorporates_forward_forward_algorithm.py:     *)
(* the UNet class (constructor and forward), forward_forward, sample, the  *)
(* left/right split of the training loop and the module-level script.      *)
(*                                                                         *)
(* Tensors are modelled by their shape <<batch, channel, height, width>>;  *)
(* a Python exception is a value [kind |-> "error", ...] that every        *)
(* operator propagates the way an uncaught exception unwinds the callers.  *)
(***************************************************************************)
EXTENDS Integers, Sequences, FiniteSets, TLC

VARIABLES pc, in_channels, out_channels, num_layers, x, result,
          model, X_left, X_right, y, noise, steps, images,
          train_dataset, train_loader, diffusion_steps, beta_schedule,
          optimizer, epoch, updates, samples

vars == <<pc, in_channels, out_channels, num_layers, x, result,
          model, X_left, X_right, y, noise, steps, images,
          train_dataset, train_loader, diffusion_steps, beta_schedule,
          optimizer, epoch, updates, samples>>

\* ------------------------------------------------------------------ bounds
MaxInCh == 2
MaxOutCh == 3
MaxLayers == 3
NegLayers == 1
MaxBatch == 3
MaxSide == 2
MaxSteps == 3
MaxImages == 2
MaxLabel == 2

\* ------------------------------------------------- constants of the script
ImgSize == 28
SplitAt == 14
NumClasses == 10
BatchSize == 64
DiffusionSteps == 1000
Epochs == 10
SampleBatch == 64

\* The value of a variable that the specification at hand does not use, and
\* of a script name that is not bound yet.
Unused == "unused"

\* --------------------------------------------------------- Python numbers
\* A Python number is [n |-> value * Scale, f |-> it is a float].  2 ** e is
\* an int for e >= 0 and a float (a negative power) for e < 0, and an int
\* times a float is a float.
Scale == 2 ^ (NegLayers + 1)

PyInt(k) == [n |-> k * Scale, f |-> FALSE]

PyPow2(e) == IF e >= 0 THEN [n |-> (2 ^ e) * Scale, f |-> FALSE]
             ELSE [n |-> Scale \div (2 ^ (0 - e)), f |-> TRUE]

PyMul(a, b) == [n |-> (a.n * b.n) \div Scale, f |-> a.f \/ b.f]

PyAdd(a, b) == [n |-> a.n + b.n, f |-> a.f \/ b.f]

PyEq(a, b) == a.n = b.n

IsIntegral(a) == a.n % Scale = 0

\* --------------------------------------------------------------- outcomes
Raise(exc, line) == [kind |-> "error", exc |-> exc, line |-> line]

IsError(v) == v.kind = "error"

Tensor(shape) == [kind |-> "tensor", shape |-> shape]

Pending == [kind |-> "pending"]

\* ------------------------------------------------------ torch.nn modules
\* nn.Conv2d / nn.ConvTranspose2d constructors: the channel counts go through
\* `channels % groups` (ValueError when not a whole number) and then into
\* torch.empty as a size, which accepts Python ints only (TypeError for a
\* float, whole or not).
ConvCtorError(cin, cout) ==
    IF ~IsIntegral(cin) \/ ~IsIntegral(cout) THEN "ValueError"
    ELSE IF cin.f \/ cout.f THEN "TypeError"
    ELSE "none"

\* A convolution (kernel 3, padding 1) keeps height and width and requires
\* the input's channel count to be the layer's in_channels.
ApplyConv(cin, cout, s, line) ==
    IF ~PyEq(PyInt(s[2]), cin) THEN Raise("RuntimeError", line)
    ELSE Tensor(<<s[1], cout.n \div Scale, s[3], s[4]>>)

\* nn.MaxPool2d(2): floor halving; an output of size 0 is refused.
ApplyMaxPool(s, line) ==
    IF s[3] \div 2 = 0 \/ s[4] \div 2 = 0 THEN Raise("RuntimeError", line)
    ELSE Tensor(<<s[1], s[2], s[3] \div 2, s[4] \div 2>>)

\* nn.ConvTranspose2d(kernel_size=2, stride=2): doubles height and width.
ApplyConvT(cin, cout, s, line) ==
    IF ~PyEq(PyInt(s[2]), cin) THEN Raise("RuntimeError", line)
    ELSE Tensor(<<s[1], cout.n \div Scale, 2 * s[3], 2 * s[4]>>)

\* torch.cat([a, b], dim=1): every dimension but the channel one must agree.
Cat(a, b, line) ==
    IF a[1] # b[1] \/ a[3] # b[3] \/ a[4] # b[4] THEN Raise("RuntimeError", line)
    ELSE Tensor(<<a[1], a[2] + b[2], a[3], a[4]>>)

\* ----------------------------------------------------------- UNet.__init__
DownInCh(i, ic, oc) == IF i = 0 THEN PyInt(ic) ELSE PyMul(PyPow2(i - 1), PyInt(oc))

DownOutCh(i, oc) == PyMul(PyPow2(i), PyInt(oc))

\* A variant of line 37 whose exponent is clamped at 0.
BottleneckInChClamped(n, oc) ==
    PyMul(PyPow2(IF n - 1 < 0 THEN 0 ELSE n - 1), PyInt(oc))

BottleneckInCh(n, oc) == PyMul(PyPow2(n - 1), PyInt(oc))

UpInCh(i, n, oc) == IF i = n - 1 THEN PyMul(PyInt(oc), PyInt(2))
                    ELSE PyMul(PyPow2(i), PyInt(oc))

UpOutCh(i, oc) == PyMul(PyPow2(i - 1), PyInt(oc))

\* range(num_layers) and reversed(range(num_layers)) as the sequences of the
\* loop index; both are empty for num_layers <= 0.
Range(n) == [k \in 1..n |-> k - 1]

ReversedRange(n) == [k \in 1..n |-> n - k]

\* The layers in the order the constructor creates them, each with the line
\* of its first convolution.
DownLayers(ic, oc, n) ==
    [k \in 1..n |-> [stage |-> "down", in |-> DownInCh(Range(n)[k], ic, oc),
                     out |-> DownOutCh(Range(n)[k], oc), line |-> 27]]

Bottleneck(n, oc) ==
    [stage |-> "bottleneck", in |-> BottleneckInCh(n, oc), out |-> PyInt(oc), line |-> 37]

UpLayers(oc, n) ==
    [k \in 1..n |-> [stage |-> "up", in |-> UpInCh(ReversedRange(n)[k], n, oc),
                     out |-> UpOutCh(ReversedRange(n)[k], oc), line |-> 50]]

OutputLayer(oc) ==
    [stage |-> "output", in |-> PyInt(oc), out |-> PyInt(oc), line |-> 60]

CtorOrder(ic, oc, n) ==
    DownLayers(ic, oc, n) \o <<Bottleneck(n, oc)>> \o UpLayers(oc, n) \o <<OutputLayer(oc)>>

\* Every stage opens with a convolution from `in` to `out` channels and goes
\* on with convolutions from `out` to `out`.
LayerCtorError(l) ==
    IF ConvCtorError(l.in, l.out) # "none" THEN ConvCtorError(l.in, l.out)
    ELSE ConvCtorError(l.out, l.out)

FirstBad(ls) ==
    IF \E k \in 1..Len(ls) : LayerCtorError(ls[k]) # "none"
    THEN CHOOSE k \in 1..Len(ls) :
            /\ LayerCtorError(ls[k]) # "none"
            /\ \A j \in 1..(k - 1) : LayerCtorError(ls[j]) = "none"
    ELSE 0

\* The attributes __init__ assigns to the instance.
UNetAttrs == {"down_layers", "bottleneck", "up_layers", "output_layer"}

Module(ic, oc, n) ==
    [kind |-> "module", attrs |-> UNetAttrs,
     down_layers |-> DownLayers(ic, oc, n), bottleneck |-> Bottleneck(n, oc),
     up_layers |-> UpLayers(oc, n), output_layer |-> OutputLayer(oc)]

\* UNet(in_channels, out_channels, num_layers): the module, or the exception
\* of the first layer whose construction fails.
UNetInit(ic, oc, n) ==
    LET ls == CtorOrder(ic, oc, n)
        bad == FirstBad(ls)
    IN  IF bad # 0
        THEN [kind |-> "error", exc |-> LayerCtorError(ls[bad]), line |-> ls[bad].line,
              stage |-> ls[bad].stage]
        ELSE Module(ic, oc, n)

\* ------------------------------------------------------------ UNet.forward
\* Each operator below takes the value the statement before it computed and
\* either passes its exception on or goes on to the next statement.
\* One down stage: two convolutions, then the 2x pooling (the pooling is
\* part of the nn.Sequential, so the retained activation is the pooled one).
Pooled(c) == IF IsError(c) THEN c ELSE ApplyMaxPool(c.shape, 66)

ApplyDown(l, s) == Pooled(ApplyConv(l.in, l.out, s, 66))

\* for layer in self.down_layers: x = layer(x); down_outputs.append(x)
RECURSIVE DownPass(_, _, _, _)
RECURSIVE DownNext(_, _, _, _)
DownPass(net, k, s, outs) ==
    IF k > Len(net.down_layers) THEN [kind |-> "down", shape |-> s, outs |-> outs]
    ELSE DownNext(net, k, outs, ApplyDown(net.down_layers[k], s))

DownNext(net, k, outs, r) ==
    IF IsError(r) THEN r ELSE DownPass(net, k + 1, r.shape, Append(outs, r.shape))

\* for i, layer in enumerate(self.up_layers): x = layer(x), then the
\* concatenation with down_outputs[-(i + 1)] (k = i + 1).
RECURSIVE UpPass(_, _, _, _)
RECURSIVE UpNext(_, _, _, _)
UpCat(k, outs, r) ==
    IF IsError(r) THEN r ELSE Cat(r.shape, outs[Len(outs) - k + 1], 76)

UpPass(net, k, s, outs) ==
    IF k > Len(net.up_layers) THEN Tensor(s)
    ELSE UpNext(net, k, outs,
                UpCat(k, outs, ApplyConvT(net.up_layers[k].in, net.up_layers[k].out, s, 74)))

UpNext(net, k, outs, c) ==
    IF IsError(c) THEN c ELSE UpPass(net, k + 1, c.shape, outs)

\* x = self.output_layer(x)
AfterUp(net, u) ==
    IF IsError(u) THEN u
    ELSE ApplyConv(net.output_layer.in, net.output_layer.out, u.shape, 79)

AfterBottleneck(net, outs, b) ==
    IF IsError(b) THEN b ELSE AfterUp(net, UpPass(net, 1, b.shape, outs))

\* x = self.bottleneck(x)
AfterDown(net, d) ==
    IF IsError(d) THEN d
    ELSE AfterBottleneck(net, d.outs,
                         ApplyConv(net.bottleneck.in, net.bottleneck.out, d.shape, 70))

Forward(net, s) == AfterDown(net, DownPass(net, 1, s, <<>>))

\* UNet(in_channels, out_channels, num_layers)(x)
UNetCall(ic, oc, n, s) ==
    LET m == UNetInit(ic, oc, n)
    IN  IF IsError(m) THEN m ELSE Forward(m, s)

\* ------------------------------------------------------- calling the model
\* forward's parameters besides self.  model(a, ...) binds its positional
\* arguments to them; a count that differs is a TypeError raised before
\* forward's body runs.
ForwardParams == <<"x">>

Call(m, args, line) ==
    IF Len(args) # Len(ForwardParams) THEN Raise("TypeError", line)
    ELSE Forward(m, args[1])

\* model.<name>: nn.Module.__getattr__ raises for a name never assigned.
GetAttr(m, name, line) ==
    IF name \in m.attrs THEN [kind |-> "value", value |-> m[name]]
    ELSE Raise("AttributeError", line)

\* --------------------------------------------------------- forward_forward
RECURSIVE Product(_)
Product(s) == IF s = <<>> THEN 1 ELSE Head(s) * Product(Tail(s))

\* tensor.nelement()
NElement(s) == Product(s)

Count(labels, v) == Cardinality({k \in 1..Len(labels) : labels[k] = v})

\* X[y == v]: the rows of X whose label is v.
Mask(s, labels, v) == <<Count(labels, v), s[2], s[3], s[4]>>

\* A variant of line 99 with `and` in place of `or`.
BothEmpty(pos, neg) == NElement(pos) = 0 /\ NElement(neg) = 0

EitherEmpty(pos, neg) == NElement(pos) = 0 \/ NElement(neg) = 0

Zero == [kind |-> "scalar", value |-> "0.0"]

\* a - b under broadcasting: each dimension equal, or 1 on one side.
Broadcastable(a, b) == \A d \in 1..4 : a[d] = b[d] \/ a[d] = 1 \/ b[d] = 1

\* torch.mean((out_pos - out_neg) ** 2): a mean of squares.
MeanSqDiff(a, b, line) ==
    IF ~Broadcastable(a, b) THEN Raise("RuntimeError", line)
    ELSE [kind |-> "scalar", value |-> "mean of squares"]

\* loss = torch.mean((out_pos - out_neg) ** 2)
FFLoss(out_pos, out_neg) ==
    IF IsError(out_neg) THEN [out |-> out_neg, calls |-> 2]
    ELSE [out |-> MeanSqDiff(out_pos.shape, out_neg.shape, 107), calls |-> 2]

\* out_neg = model(X_neg_left, X_neg_right)
FFNeg(m, neg_left, neg_right, out_pos) ==
    IF IsError(out_pos) THEN [out |-> out_pos, calls |-> 1]
    ELSE FFLoss(out_pos, Call(m, <<neg_left, neg_right>>, 104))

\* The partitions once taken: the emptiness check, then
\* out_pos = model(X_pos_left, X_pos_right).
FFBody(m, X_pos_left, X_neg_left, X_pos_right, X_neg_right) ==
    IF EitherEmpty(X_pos_left, X_neg_left) THEN [out |-> Zero, calls |-> 0]
    ELSE FFNeg(m, X_neg_left, X_neg_right, Call(m, <<X_pos_left, X_pos_right>>, 103))

\* [out |-> the value returned or the exception raised,
\*  calls |-> how many times model(...) was called]
forward_forward(m, xl, xr, labels) ==
    FFBody(m, Mask(xl, labels, 1), Mask(xl, labels, 0),
           Mask(xr, labels, 1), Mask(xr, labels, 0))

\* ------------------------------------------------------------------ sample
\* seq[i] with a 0-based index
Index(seq, i, line) ==
    IF i + 1 \in DOMAIN seq THEN [kind |-> "value", value |-> seq[i + 1]]
    ELSE Raise("IndexError", line)

\* The loop `for i in range(steps - 1, -1, -1)` from index i on.
\* st = [noise |-> running tensor, calls |-> calls so far, visited |-> indices so far]
RECURSIVE SampleLoop(_, _, _, _)
RECURSIVE SampleNext(_, _, _, _, _, _)
SampleLoop(m, sched, i, st) ==
    IF i < 0 THEN [out |-> Tensor(st.noise), calls |-> st.calls, visited |-> st.visited]
    ELSE SampleNext(m, sched, i, st, Call(m, <<st.noise, i>>, 157), Index(sched, i, 157))

\* noise = model(noise, i) * sqrt_alphas_cumprod[i]: r is the call's value
\* and c the coefficient's.
SampleNext(m, sched, i, st, r, c) ==
    IF IsError(r)
    THEN [out |-> r, calls |-> st.calls + 1, visited |-> Append(st.visited, i)]
    ELSE IF IsError(c)
    THEN [out |-> c, calls |-> st.calls + 1, visited |-> Append(st.visited, i)]
    ELSE SampleLoop(m, sched, i - 1,
                    [noise |-> r.shape, calls |-> st.calls + 1,
                     visited |-> Append(st.visited, i)])

SampleBody(m, seed, n, alphas, sqrt_alphas_cumprod) ==
    IF IsError(alphas) THEN [out |-> alphas, calls |-> 0, visited |-> <<>>]
    ELSE IF IsError(sqrt_alphas_cumprod)
    THEN [out |-> sqrt_alphas_cumprod, calls |-> 0, visited |-> <<>>]
    ELSE SampleLoop(m, sqrt_alphas_cumprod.value, n - 1,
                    [noise |-> seed, calls |-> 0, visited |-> <<>>])

sample(m, seed, n) ==
    SampleBody(m, seed, n, GetAttr(m, "alphas_cumprod", 152),
               GetAttr(m, "sqrt_alphas_cumprod", 153))

\* --------------------------------------------------- the left/right split
Min(a, b) == IF a < b THEN a ELSE b

\* images[:, :, lo:hi]: a slice of dimension 2 (the third axis), clipped to
\* the axis as Python clips a slice.  idx2 and idx3 are the indices of axes 2
\* and 3 of `images` that the slice holds.
SliceAxis2(s, lo, hi) ==
    [shape |-> <<s[1], s[2], Min(hi, s[3]) - Min(lo, s[3]), s[4]>>,
     idx2 |-> Min(lo, s[3]) .. (Min(hi, s[3]) - 1),
     idx3 |-> 0 .. (s[4] - 1)]

\* images[:, :, :14]
SplitLeft(s) == SliceAxis2(s, 0, SplitAt)

\* images[:, :, 14:]
SplitRight(s) == SliceAxis2(s, SplitAt, s[3])

\* ===================================================== UNet(...)(x), alone
Sides == (1..MaxSide) \cup {SplitAt, ImgSize}

\* The model arguments forward_forward and sample are applied to: the
\* attribute values of a UNet instance, for each constructor argument list.
\* Both functions take the model as a parameter and fail before they read any
\* of these attributes; UNetInit shows that the constructor itself returns
\* none of these instances.
Instances ==
    {Module(ic, oc, n) : ic \in 1..MaxInCh, oc \in 1..MaxOutCh,
                         n \in (0 - NegLayers)..MaxLayers}

InitUNet ==
    /\ pc = "call"
    /\ in_channels \in 1..MaxInCh
    /\ out_channels \in 1..MaxOutCh
    /\ num_layers \in (0 - NegLayers)..MaxLayers
    /\ x \in {<<b, c, h, w>> : b \in 1..MaxBatch, c \in 1..MaxInCh, h \in Sides, w \in Sides}
    /\ result = Pending
    /\ model = Unused /\ X_left = Unused /\ X_right = Unused /\ y = Unused
    /\ noise = Unused /\ steps = Unused /\ images = Unused
    /\ train_dataset = Unused /\ train_loader = Unused /\ diffusion_steps = Unused
    /\ beta_schedule = Unused /\ optimizer = Unused /\ epoch = Unused
    /\ updates = Unused /\ samples = Unused

\* model = UNet(in_channels, out_channels, num_layers); result = model(x)
UNetApply ==
    /\ pc = "call"
    /\ result' = UNetCall(in_channels, out_channels, num_layers, x)
    /\ pc' = "done"
    /\ UNCHANGED <<in_channels, out_channels, num_layers, x, model, X_left, X_right, y,
                   noise, steps, images, train_dataset, train_loader, diffusion_steps,
                   beta_schedule, optimizer, epoch, updates, samples>>

NextUNet == UNetApply

SpecUNet == InitUNet /\ [][NextUNet]_vars

\* ============================================ forward_forward(...), alone
ImgChannels == 1

LabelSeqs(b) == [1..b -> 0..MaxLabel]

InitFF ==
    /\ pc = "call"
    /\ model \in Instances
    /\ \E b \in 0..MaxBatch :
          /\ images = <<b, ImgChannels, ImgSize, ImgSize>>
          /\ y \in LabelSeqs(b)
    /\ X_left = SplitLeft(images).shape
    /\ X_right = SplitRight(images).shape
    /\ result = Pending
    /\ in_channels = Unused /\ out_channels = Unused /\ num_layers = Unused
    /\ x = Unused /\ noise = Unused /\ steps = Unused
    /\ train_dataset = Unused /\ train_loader = Unused /\ diffusion_steps = Unused
    /\ beta_schedule = Unused /\ optimizer = Unused /\ epoch = Unused
    /\ updates = Unused /\ samples = Unused

\* result = forward_forward(model, X_left, X_right, y)
FFApply ==
    /\ pc = "call"
    /\ result' = forward_forward(model, X_left, X_right, y)
    /\ pc' = "done"
    /\ UNCHANGED <<in_channels, out_channels, num_layers, x, model, X_left, X_right, y,
                   noise, steps, images, train_dataset, train_loader, diffusion_steps,
                   beta_schedule, optimizer, epoch, updates, samples>>

NextFF == FFApply

SpecFF == InitFF /\ [][NextFF]_vars

\* ===================================================== sample(...), alone
InitSample ==
    /\ pc = "call"
    /\ model \in Instances
    /\ noise \in {<<b, ImgChannels, ImgSize, ImgSize>> : b \in 1..MaxBatch}
    /\ steps \in 0..MaxSteps
    /\ result = Pending
    /\ in_channels = Unused /\ out_channels = Unused /\ num_layers = Unused
    /\ x = Unused /\ X_left = Unused /\ X_right = Unused /\ y = Unused
    /\ images = Unused
    /\ train_dataset = Unused /\ train_loader = Unused /\ diffusion_steps = Unused
    /\ beta_schedule = Unused /\ optimizer = Unused /\ epoch = Unused
    /\ updates = Unused /\ samples = Unused

\* result = sample(model, noise, steps)
SampleApply ==
    /\ pc = "call"
    /\ result' = sample(model, noise, steps)
    /\ pc' = "done"
    /\ UNCHANGED <<in_channels, out_channels, num_layers, x, model, X_left, X_right, y,
                   noise, steps, images, train_dataset, train_loader, diffusion_steps,
                   beta_schedule, optimizer, epoch, updates, samples>>

NextSample == SampleApply

SpecSample == InitSample /\ [][NextSample]_vars

\* ================================================= the split of one batch
InitSplit ==
    /\ pc = "call"
    /\ images \in {<<b, c, h, w>> : b \in 0..MaxBatch, c \in 1..MaxInCh,
                                    h \in Sides, w \in Sides}
    /\ X_left = Unused /\ X_right = Unused
    /\ result = Pending
    /\ in_channels = Unused /\ out_channels = Unused /\ num_layers = Unused
    /\ x = Unused /\ model = Unused /\ y = Unused /\ noise = Unused /\ steps = Unused
    /\ train_dataset = Unused /\ train_loader = Unused /\ diffusion_steps = Unused
    /\ beta_schedule = Unused /\ optimizer = Unused /\ epoch = Unused
    /\ updates = Unused /\ samples = Unused

\* X_left, X_right = images[:, :, :14], images[:, :, 14:]
SplitApply ==
    /\ pc = "call"
    /\ X_left' = SplitLeft(images)
    /\ X_right' = SplitRight(images)
    /\ pc' = "done"
    /\ UNCHANGED <<in_channels, out_channels, num_layers, x, result, model, y,
                   noise, steps, images, train_dataset, train_loader, diffusion_steps,
                   beta_schedule, optimizer, epoch, updates, samples>>

NextSplit == SplitApply

SpecSplit == InitSplit /\ [][NextSplit]_vars

\* ====================================================== the script, whole
\* UNet(*args): __init__'s parameters besides self are in_channels,
\* out_channels and num_layers, the last with a default; any other number of
\* positional arguments is a TypeError raised before __init__'s body runs.
CtorParams == <<"in_channels", "out_channels", "num_layers">>

DefaultNumLayers == 5

NewUNet(args, line) ==
    IF Len(args) < Len(CtorParams) - 1 \/ Len(args) > Len(CtorParams)
    THEN Raise("TypeError", line)
    ELSE UNetInit(args[1], args[2],
                  IF Len(args) = Len(CtorParams) THEN args[3] ELSE DefaultNumLayers)

\* loss.backward(): a tensor built by torch.tensor(0.0) has no grad_fn and
\* does not require grad, and backward() on it is a RuntimeError.
Backward(loss, line) ==
    IF loss.value = "0.0" THEN Raise("RuntimeError", line) ELSE [kind |-> "ok"]

Failed(e, ups) == [out |-> e, updates |-> ups]

\* One pass of the body of `for t in range(diffusion_steps - 1, -1, -1)`
\* (lines 119-138), statement by statement: each operator takes the value the
\* statement computed and either ends the pass with its exception or goes on
\* to the next statement.  ups is the log of optimizer.step() calls so far.
\* line 138: optimizer.step() on the noise-prediction loss
Line136(t, ups, loss) ==
    IF IsError(loss) THEN Failed(loss, ups)
    ELSE [out |-> [kind |-> "ok"], updates |-> Append(ups, [loss |-> "noise", t |-> t])]

\* line 133: loss = torch.mean((pred_noise - noise) ** 2); noise has the shape of images
Line133(imgs, t, ups, pred_noise) ==
    IF IsError(pred_noise) THEN Failed(pred_noise, ups)
    ELSE Line136(t, ups, MeanSqDiff(pred_noise.shape, imgs, 133))

\* lines 129, 132: optimizer.step() on the contrastive loss, then model(noisy_images, t)
Line129(m, imgs, t, ups, backward) ==
    IF IsError(backward) THEN Failed(backward, ups)
    ELSE Line133(imgs, t, Append(ups, [loss |-> "contrastive", t |-> t]),
                 Call(m, <<imgs, t>>, 132))

\* lines 127-128: optimizer.zero_grad(); loss.backward()
Line127(m, imgs, t, ups, loss) ==
    IF IsError(loss) THEN Failed(loss, ups)
    ELSE Line129(m, imgs, t, ups, Backward(loss, 128))

\* line 124: loss = forward_forward(model, X_left, X_right, _)
Line124(m, imgs, labels, t, ups, model_output) ==
    IF IsError(model_output) THEN Failed(model_output, ups)
    ELSE Line127(m, imgs, t, ups,
                 forward_forward(m, SplitLeft(imgs).shape, SplitRight(imgs).shape,
                                 labels).out)

\* line 121: model_output = model(noisy_images, t)
Line121(m, imgs, labels, t, ups, alpha) ==
    IF IsError(alpha) THEN Failed(alpha, ups)
    ELSE Line124(m, imgs, labels, t, ups, Call(m, <<imgs, t>>, 121))

\* line 120: model.alphas_cumprod[t]
Line120b(m, imgs, labels, t, ups, ac) ==
    IF IsError(ac) THEN Failed(ac, ups)
    ELSE Line121(m, imgs, labels, t, ups, Index(ac.value, t, 120))

\* line 120: model.alphas_cumprod
Line120(m, imgs, labels, t, ups, sqrt_alpha) ==
    IF IsError(sqrt_alpha) THEN Failed(sqrt_alpha, ups)
    ELSE Line120b(m, imgs, labels, t, ups, GetAttr(m, "alphas_cumprod", 120))

\* line 119: model.sqrt_alphas_cumprod[t]
Line119b(m, imgs, labels, t, ups, sac) ==
    IF IsError(sac) THEN Failed(sac, ups)
    ELSE Line120(m, imgs, labels, t, ups, Index(sac.value, t, 119))

\* line 119: model.sqrt_alphas_cumprod
TrainStep(m, imgs, labels, t, ups) ==
    Line119b(m, imgs, labels, t, ups, GetAttr(m, "sqrt_alphas_cumprod", 119))

RECURSIVE TrainSteps(_, _, _, _, _)
RECURSIVE TrainStepsNext(_, _, _, _, _)
TrainSteps(m, imgs, labels, t, ups) ==
    IF t < 0 THEN [out |-> [kind |-> "ok"], updates |-> ups]
    ELSE TrainStepsNext(m, imgs, labels, t, TrainStep(m, imgs, labels, t, ups))

TrainStepsNext(m, imgs, labels, t, r) ==
    IF IsError(r.out) THEN r ELSE TrainSteps(m, imgs, labels, t - 1, r.updates)

\* len(train_loader), and batch k (from 1) of an epoch whose shuffle is `order`
NumBatches(n) == (n + BatchSize - 1) \div BatchSize

BatchLen(n, k) == Min(BatchSize, n - (k - 1) * BatchSize)

BatchLabels(ds, order, k) ==
    [j \in 1..BatchLen(Len(ds.labels), k) |-> ds.labels[order[(k - 1) * BatchSize + j]]]

\* `for batch_idx, (images, _) in enumerate(train_loader)` from batch k on
RECURSIVE TrainBatches(_, _, _, _, _, _)
RECURSIVE TrainBatchesNext(_, _, _, _, _, _)
TrainBatch(m, labels, T, ups) ==
    TrainSteps(m, <<Len(labels), ImgChannels, ImgSize, ImgSize>>, labels, T - 1, ups)

TrainBatches(m, ds, order, T, k, ups) ==
    IF k > NumBatches(Len(ds.labels)) THEN [out |-> [kind |-> "ok"], updates |-> ups]
    ELSE TrainBatchesNext(m, ds, order, T, k, TrainBatch(m, BatchLabels(ds, order, k), T, ups))

TrainBatchesNext(m, ds, order, T, k, r) ==
    IF IsError(r.out) THEN r ELSE TrainBatches(m, ds, order, T, k + 1, r.updates)

\* `for epoch in range(10)` from epoch e on; orders[e + 1] is epoch e's shuffle.
RECURSIVE TrainEpochs(_, _, _, _, _, _)
RECURSIVE TrainEpochsNext(_, _, _, _, _, _)
TrainEpochs(m, ds, orders, T, e, ups) ==
    IF e >= Epochs THEN [out |-> [kind |-> "ok"], updates |-> ups, epoch |-> e]
    ELSE TrainEpochsNext(m, ds, orders, T, e, TrainBatches(m, ds, orders[e + 1], T, 1, ups))

TrainEpochsNext(m, ds, orders, T, e, r) ==
    IF IsError(r.out) THEN [out |-> r.out, updates |-> r.updates, epoch |-> e]
    ELSE TrainEpochs(m, ds, orders, T, e + 1, r.updates)

\* samples = sample(model, noise, diffusion_steps)
Line164(tr, s) ==
    [out |-> IF IsError(s.out) THEN s.out ELSE [kind |-> "exit"],
     updates |-> tr.updates, epoch |-> tr.epoch, samples |-> 1]

AfterTraining(m, T, tr) ==
    IF IsError(tr.out)
    THEN [out |-> tr.out, updates |-> tr.updates, epoch |-> tr.epoch, samples |-> 0]
    ELSE Line164(tr, sample(m, <<SampleBatch, ImgChannels, ImgSize, ImgSize>>, T))

\* Lines 88-164, run with the model of line 87.
RestOfScript(m, ds, orders, T) == AfterTraining(m, T, TrainEpochs(m, ds, orders, T, 0, <<>>))

Perms(n) == {f \in [1..n -> 1..n] : \A a, b \in 1..n : a # b => f[a] # f[b]}

InitScript ==
    /\ pc = "line11"
    /\ train_dataset = Unused /\ train_loader = Unused /\ diffusion_steps = Unused
    /\ beta_schedule = Unused /\ model = Unused /\ optimizer = Unused /\ epoch = Unused
    /\ updates = <<>> /\ samples = 0
    /\ result = Pending
    /\ in_channels = Unused /\ out_channels = Unused /\ num_layers = Unused
    /\ x = Unused /\ X_left = Unused /\ X_right = Unused /\ y = Unused
    /\ noise = Unused /\ steps = Unused /\ images = Unused

\* train_dataset = datasets.MNIST(...): the images and their digit labels
LoadDataset ==
    /\ pc = "line11"
    /\ \E n \in 0..MaxImages : \E labels \in [1..n -> 0..(NumClasses - 1)] :
          train_dataset' = [images |-> <<n, ImgChannels, ImgSize, ImgSize>>,
                            labels |-> labels]
    /\ pc' = "line12"
    /\ UNCHANGED <<in_channels, out_channels, num_layers, x, result, model, X_left,
                   X_right, y, noise, steps, images, train_loader, diffusion_steps,
                   beta_schedule, optimizer, epoch, updates, samples>>

\* train_loader = DataLoader(train_dataset, batch_size=64, shuffle=True)
MakeLoader ==
    /\ pc = "line12"
    /\ train_loader' = [dataset |-> train_dataset, batch_size |-> BatchSize,
                        shuffle |-> TRUE]
    /\ pc' = "line83"
    /\ UNCHANGED <<in_channels, out_channels, num_layers, x, result, model, X_left,
                   X_right, y, noise, steps, images, train_dataset, diffusion_steps,
                   beta_schedule, optimizer, epoch, updates, samples>>

\* diffusion_steps = 1000; beta_schedule = 'cosine'
SetHyperparameters ==
    /\ pc = "line83"
    /\ diffusion_steps' = DiffusionSteps
    /\ beta_schedule' = "cosine"
    /\ pc' = "line87"
    /\ UNCHANGED <<in_channels, out_channels, num_layers, x, result, model, X_left,
                   X_right, y, noise, steps, images, train_dataset, train_loader,
                   optimizer, epoch, updates, samples>>

\* model = UNet() and, when that returns, the rest of the script: the
\* optimizer, the training loop and the call of sample.  An exception ends
\* the run where it is raised.
MakeModelAndRun ==
    /\ pc = "line87"
    /\ LET m == NewUNet(<<>>, 87)
       IN  IF IsError(m)
           THEN /\ result' = m
                /\ pc' = "raised"
                /\ UNCHANGED <<model, optimizer, epoch, updates, samples>>
           ELSE \E orders \in [1..Epochs -> Perms(Len(train_dataset.labels))] :
                   LET run == RestOfScript(m, train_dataset, orders, diffusion_steps)
                   IN  /\ model' = m
                       /\ optimizer' = [class |-> "Adam", params |-> "model.parameters()"]
                       /\ epoch' = run.epoch
                       /\ updates' = run.updates
                       /\ samples' = run.samples
                       /\ result' = run.out
                       /\ pc' = IF IsError(run.out) THEN "raised" ELSE "exit"
    /\ UNCHANGED <<in_channels, out_channels, num_layers, x, X_left, X_right, y,
                   noise, steps, images, train_dataset, train_loader, diffusion_steps,
                   beta_schedule>>

NextScript == LoadDataset \/ MakeLoader \/ SetHyperparameters \/ MakeModelAndRun

SpecScript == InitScript /\ [][NextScript]_vars

\* ================================================================== claims
Finished == pc = "done"

\* The channel count that leaves up stage k after its concatenation with the
\* paired down stage's activation, and the count the next layer expects.
ConcatCh(ic, oc, n, k) ==
    PyAdd(UpLayers(oc, n)[k].out, DownLayers(ic, oc, n)[n - k + 1].out)

NextInCh(oc, n, k) == IF k < n THEN UpLayers(oc, n)[k + 1].in ELSE OutputLayer(oc).in

PairMismatch(ic, oc, n) ==
    \E k \in 1..n : ~PyEq(ConcatCh(ic, oc, n, k), NextInCh(oc, n, k))

Degenerate(ic, oc, n) == n <= 0 \/ PairMismatch(ic, oc, n)

\* Height and width that num_layers halvings divide exactly.
Halvable(s, n) == s[3] % (2 ^ n) = 0 /\ s[4] % (2 ^ n) = 0

\* C1: for every network built with num_layers >= 1 and every input of shape
\* (B, C_in, H, W), forward returns a tensor of shape (B, C_out, H, W)
\* (stated here for the inputs whose height and width the halvings divide).
C1_ShapePreserved ==
    (Finished /\ num_layers >= 1 /\ x[2] = in_channels /\ Halvable(x, num_layers))
        => result = Tensor(<<x[1], out_channels, x[3], x[4]>>)

\* C7: a degenerate configuration (num_layers <= 0, or channel counts that do
\* not match between a down stage and its paired up stage) ends in an error,
\* raised no later than the first mismatching operation (inside __init__,
\* lines 17-60, for num_layers <= 0 at the bottleneck); it never yields a tensor.
C7_DegenerateFails ==
    (Finished /\ Degenerate(in_channels, out_channels, num_layers))
        => /\ result.kind = "error"
           /\ result.line <= 60
           /\ num_layers <= 0 => result.stage = "bottleneck"

C7_Witness ==
    /\ Finished
    /\ num_layers <= 0
    /\ x[2] = out_channels
    /\ result.kind = "error"
    /\ result.stage = "bottleneck"

HasLabel(v) == Count(y, v) >= 1

\* C2: forward_forward returns exactly 0.0, without calling the network and
\* without raising, whenever y holds no 1 or no 0.
C2_EmptyPartitionZero ==
    (Finished /\ (~HasLabel(1) \/ ~HasLabel(0)))
        => result = [out |-> Zero, calls |-> 0]

C2_Witness ==
    /\ Finished
    /\ Len(y) >= 2
    /\ \A k \in 1..Len(y) : y[k] = 1
    /\ result = [out |-> Zero, calls |-> 0]

Swap(labels) == [k \in 1..Len(labels) |-> 1 - labels[k]]

\* C3: for every label vector over {0, 1}, forward_forward returns the same
\* loss value for y and for y with the roles of 1 and 0 exchanged.
C3_SwapSymmetric ==
    (Finished /\ \A k \in 1..Len(y) : y[k] \in {0, 1})
        => /\ result.out.kind = "scalar"
           /\ forward_forward(model, X_left, X_right, Swap(y)).out = result.out

\* C4: for every batch with at least one label 1 and at least one label 0,
\* forward_forward runs the network on both groups and returns a scalar loss
\* rather than an error.
C4_MixedBatchLoss ==
    (Finished /\ HasLabel(1) /\ HasLabel(0))
        => /\ result.out.kind = "scalar"
           /\ result.calls = 2

\* C5: sample visits the step indices steps-1, ..., 0 once each in decreasing
\* order, calls the network exactly `steps` times and returns the tensor of
\* index 0 (the unchanged seed when steps = 0).
C5_SampleVisitsEachStep ==
    Finished
        => /\ result.calls = steps
           /\ result.visited = [k \in 1..steps |-> steps - k]
           /\ result.out.kind = "tensor"
           /\ steps = 0 => result.out = Tensor(noise)

\* C9: for a batch of images with H = W = 28 the split yields a left half of
\* columns 0..13 and a right half of columns 14..27 of the width axis, each of
\* shape (B, C, 28, 14), disjoint and together covering every pixel.
C9_LeftRightColumns ==
    (Finished /\ images[1] >= 1 /\ images[3] = ImgSize /\ images[4] = ImgSize)
        => /\ X_left.shape = <<images[1], images[2], ImgSize, SplitAt>>
           /\ X_right.shape = <<images[1], images[2], ImgSize, SplitAt>>
           /\ X_left.idx3 = 0 .. (SplitAt - 1)
           /\ X_right.idx3 = SplitAt .. (ImgSize - 1)
           /\ X_left.idx2 = 0 .. (ImgSize - 1)
           /\ X_right.idx2 = 0 .. (ImgSize - 1)
           /\ (X_left.idx2 \X X_left.idx3) \cap (X_right.idx2 \X X_right.idx3) = {}
           /\ (X_left.idx2 \X X_left.idx3) \cup (X_right.idx2 \X X_right.idx3)
                 = (0 .. (ImgSize - 1)) \X (0 .. (ImgSize - 1))

Ended == pc \in {"raised", "exit"}

\* The optimizer steps of a whole run over nb batches per epoch: for every
\* epoch and batch, t from T-1 down to 0, the contrastive update and then the
\* noise-prediction update.
ExpectedUpdates(nb) ==
    [k \in 1..(2 * DiffusionSteps * nb * Epochs) |->
        [loss |-> IF k % 2 = 1 THEN "contrastive" ELSE "noise",
         t |-> DiffusionSteps - 1 - (((k - 1) \div 2) % DiffusionSteps)]]

\* C8: within each batch t runs from T-1 down to 0 and for every t exactly
\* two optimizer updates happen, the contrastive one and then the
\* noise-prediction one, also for a batch with an empty label partition.
C8_TwoUpdatesPerStep ==
    Ended => updates = ExpectedUpdates(NumBatches(Len(train_dataset.labels)))

\* C10: a run terminates after constructing the network and the optimizer,
\* training for exactly 10 epochs and then calling sample exactly once.
C10_TrainsThenSamples ==
    (Ended /\ Len(train_dataset.labels) >= 1)
          => /\ pc = "exit"
             /\ optimizer # Unused
             /\ epoch = Epochs
             /\ samples = 1

====
